---- MODULE Spec2Model ----
(***************************************************************************)
(* SRA Fetch & Convert (app.py): the "Download SRA Data" handler, its      *)
(* pre-flight disk space check, the batch loop and process_accession with  *)
(* the helpers it calls (validate_accession, compress_file,               *)
(* calculate_md5).                                                         *)
(*                                                                         *)
(* Strings are sequences of one-character strings, file contents are       *)
(* sequences of byte values.  A path is written relative to output_dir;    *)
(* os.path.join(output_dir, acc) is the path acc, and "/" separates its    *)
(* components.  The file system maps a path to its entry.                  *)
(***************************************************************************)
EXTENDS Integers, Sequences, FiniteSets, TLC

(* ------------------------------ bounds --------------------------------- *)

\* longest accession list submitted in one batch
MaxBatch == 2

(* ------------------------------ strings -------------------------------- *)

SRR == <<"S", "R", "R">>
ERR == <<"E", "R", "R">>
DRR == <<"D", "R", "R">>
Sep == <<"/">>
DotSra == <<".", "s", "r", "a">>
DotFastq == <<".", "f", "a", "s", "t", "q">>
DotGz == <<".", "g", "z">>
CommaSpace == <<",", " ">>
\* the "N/A" sentinel of a result
NA == <<"N", "/", "A">>

\* the accessions a user may submit: valid ones, an empty string, one with a
\* wrong prefix, and a valid one that holds a path separator
AccSRR1 == SRR \o <<"1">>
AccERR2 == ERR \o <<"2">>
AccEmpty == <<>>
AccBad == <<"X">> \o SRR
AccNested == AccSRR1 \o Sep \o AccSRR1 \o <<"x">>
Accessions == {AccSRR1, AccERR2, AccEmpty, AccBad, AccNested}

\* str.startswith / str.endswith
StartsWith(s, p) == Len(s) >= Len(p) /\ SubSeq(s, 1, Len(p)) = p
EndsWith(s, p) == Len(s) >= Len(p) /\ SubSeq(s, Len(s) - Len(p) + 1, Len(s)) = p

\* os.path.join(d, f) for a relative f
PathJoin(d, f) == d \o Sep \o f

\* [os.path.join(d, f) for f in names]
RECURSIVE JoinEach(_, _)
JoinEach(d, names) ==
    IF names = <<>> THEN <<>>
    ELSE <<PathJoin(d, names[1])>> \o JoinEach(d, Tail(names))

\* ", ".join(list)
RECURSIVE JoinComma(_)
JoinComma(list) ==
    IF list = <<>> THEN <<>>
    ELSE IF Len(list) = 1 THEN list[1]
    ELSE list[1] \o CommaSpace \o JoinComma(Tail(list))

\* list.remove(x): the first occurrence of x leaves the list
RECURSIVE ListRemove(_, _)
ListRemove(list, x) ==
    IF list = <<>> THEN <<>>
    ELSE IF list[1] = x THEN Tail(list)
    ELSE <<list[1]>> \o ListRemove(Tail(list), x)

\* all orders in which a finite set can be listed
RECURSIVE Orderings(_)
Orderings(S) ==
    IF S = {} THEN {<<>>}
    ELSE UNION {{<<x>> \o rest : rest \in Orderings(S \ {x})} : x \in S}

Range(list) == {list[n] : n \in 1..Len(list)}

(* ------------------------------ file contents -------------------------- *)

NewLine == 10
\* the reads an accession holds in the archive, as FASTQ text and as raw
\* archive bytes: fixed by the accession, the same on every download
FastqText(a) == IF a = AccSRR1 THEN <<64, 10, 65, 65>> ELSE <<64, 64, 10>>
SraContent(a) == <<78, 67, Len(a)>>

\* iterating a binary file yields its lines, each with its terminator
RECURSIVE ReadLines(_, _)
ReadLines(bytes, line) ==
    IF bytes = <<>> THEN (IF line = <<>> THEN <<>> ELSE <<line>>)
    ELSE IF bytes[1] = NewLine
         THEN <<line \o <<NewLine>>>> \o ReadLines(Tail(bytes), <<>>)
         ELSE ReadLines(Tail(bytes), line \o <<bytes[1]>>)

\* f_out.writelines(lines): the lines, one after the other
RECURSIVE WriteLines(_)
WriteLines(lines) ==
    IF lines = <<>> THEN <<>> ELSE lines[1] \o WriteLines(Tail(lines))

\* gzip stand-in: a two-byte magic, then run-length pairs (count, byte)
GzMagic == <<31, 139>>

RECURSIVE Deflate(_)
Deflate(bytes) ==
    IF bytes = <<>> THEN <<>>
    ELSE LET b == bytes[1]
             RunLen[n \in 1..Len(bytes)] ==
                 IF n < Len(bytes) /\ bytes[n + 1] = b THEN RunLen[n + 1] ELSE n
             run == RunLen[1]
         IN  <<run, b>> \o Deflate(SubSeq(bytes, run + 1, Len(bytes)))

RECURSIVE Inflate(_)
Inflate(pairs) ==
    IF Len(pairs) < 2 THEN <<>>
    ELSE [n \in 1..pairs[1] |-> pairs[2]] \o Inflate(SubSeq(pairs, 3, Len(pairs)))

GzipCompress(bytes) == GzMagic \o Deflate(bytes)
IsGzip(data) == Len(data) >= 2 /\ SubSeq(data, 1, 2) = GzMagic
GzipDecompress(data) == Inflate(SubSeq(data, 3, Len(data)))

\* hashlib.md5 stand-in: update() absorbs the chunks in order, hexdigest()
\* writes the absorbed length and bytes as lowercase hex (injective)
ChunkSize == 4096
HexDigits == <<"0", "1", "2", "3", "4", "5", "6", "7",
               "8", "9", "a", "b", "c", "d", "e", "f">>
Hex2(n) == <<HexDigits[((n \div 16) % 16) + 1], HexDigits[(n % 16) + 1]>>

RECURSIVE ReadChunks(_)
ReadChunks(bytes) ==
    IF bytes = <<>> THEN <<>>
    ELSE IF Len(bytes) <= ChunkSize THEN <<bytes>>
    ELSE <<SubSeq(bytes, 1, ChunkSize)>>
             \o ReadChunks(SubSeq(bytes, ChunkSize + 1, Len(bytes)))

RECURSIVE HexOf(_)
HexOf(bytes) ==
    IF bytes = <<>> THEN <<>> ELSE Hex2(bytes[1]) \o HexOf(Tail(bytes))

HexDigest(absorbed) == Hex2(Len(absorbed)) \o HexOf(absorbed)

(* ------------------------------ state ---------------------------------- *)

VARIABLES
    accession_list,   \* the accessions submitted, in input order
    auto_convert,     \* "Automatically convert to FASTQ"
    compress_files,   \* "Compress FASTQ files using gzip"
    free,             \* free bytes at output_dir: hi * 2^20 + lo
    fs,               \* path -> [kind, data, by] for every directory and file
    pc,               \* position of the script
    i,                \* 1-based index of the batch loop
    output_files,     \* process_accession's list of output paths
    k,                \* 0-based position of the iterator of the compress loop
    download_summary, \* the results appended so far
    st_error,         \* what st.error showed: <<>> or <<required, available>>
    steps,            \* history: per list index, the steps taken and how they ended
    result_files,     \* history: per result, output_files when it was returned
    metadata_results, \* "Fetch Metadata": the records appended so far
    entrez_calls      \* history: per record, how the Entrez calls ended

vars == <<accession_list, auto_convert, compress_files, free, fs, pc, i,
          output_files, k, download_summary, st_error, steps, result_files,
          metadata_results, entrez_calls>>

RequiredGb == 10
MiB == 1048576
\* free space seen by shutil.disk_usage: none, one byte short of 10 GiB, 10 GiB
FreeChoices == {[hi |-> 0, lo |-> 0],
                [hi |-> RequiredGb * 1024 - 1, lo |-> MiB - 1],
                [hi |-> RequiredGb * 1024, lo |-> 0]}

\* the owner recorded for entries that exist before the batch
Earlier == <<"e", "a", "r", "l", "i", "e", "r">>

Dir(who) == [kind |-> "dir", data |-> <<>>, by |-> who]
File(bytes, who) == [kind |-> "file", data |-> bytes, by |-> who]

\* the empty function
NoEntries == [p \in {} |-> Dir(Earlier)]

\* what an earlier run on ERR2, without compression, may have left: its
\* directory and its read file
LeftOver ==
    LET d == AccERR2
        f == PathJoin(d, AccERR2 \o DotFastq)
    IN  [p \in {d, f} |-> IF p = d THEN Dir(Earlier) ELSE File(<<64, 10>>, Earlier)]

\* what an earlier run on ERR2 leaves when it is stopped inside compress_file,
\* after the .gz is written and before os.remove: the read file and its .gz
Interrupted ==
    LET d == AccERR2
        f == PathJoin(d, AccERR2 \o DotFastq)
        g == f \o DotGz
    IN  [p \in {d, f, g} |-> IF p = d THEN Dir(Earlier)
                             ELSE IF p = f THEN File(<<64, 10>>, Earlier)
                             ELSE File(GzipCompress(<<64, 10>>), Earlier)]

RECURSIVE SeqsUpTo(_, _)
SeqsUpTo(S, n) ==
    IF n = 0 THEN {<<>>}
    ELSE LET shorter == SeqsUpTo(S, n - 1)
         IN  shorter \cup {Append(s, x) : s \in {t \in shorter : Len(t) = n - 1}, x \in S}

\* output_dir before the batch: empty, or holding what an earlier run of
\* ERR2 left when ERR2 is submitted again
InitialFs(list) ==
    {NoEntries} \cup {earlier \in {LeftOver, Interrupted} : AccERR2 \in Range(list)}

Init ==
    /\ accession_list \in SeqsUpTo(Accessions, MaxBatch)
    /\ auto_convert \in BOOLEAN
    /\ compress_files \in BOOLEAN
    /\ free \in FreeChoices
    /\ fs \in InitialFs(accession_list)
    /\ pc = "button"
    /\ i = 0
    /\ output_files = <<>>
    /\ k = 0
    /\ download_summary = <<>>
    /\ st_error = <<>>
    /\ steps = [j \in 1..Len(accession_list) |-> <<>>]
    /\ result_files = <<>>
    /\ metadata_results = <<>>
    /\ entrez_calls = <<>>

(* ------------------------------ helpers -------------------------------- *)

\* the prefix looked for anywhere in the accession, not at its start
validate_accessionAnywhere(a) ==
    \E n \in 1..Len(a) :
        \/ StartsWith(SubSeq(a, n, Len(a)), SRR)
        \/ StartsWith(SubSeq(a, n, Len(a)), ERR)
        \/ StartsWith(SubSeq(a, n, Len(a)), DRR)

\* TRUE when validate_accession(a) returns, FALSE when it raises ValueError
validate_accession(a) ==
    StartsWith(a, SRR) \/ StartsWith(a, ERR) \/ StartsWith(a, DRR)

\* TRUE when check_disk_space(required_space_gb) raises RuntimeError
free_gb == free.hi \div 1024
\* the check also fails when free_gb equals the requirement
check_disk_spaceInclusive(required_space_gb) == free_gb <= required_space_gb
check_disk_space(required_space_gb) == free_gb < required_space_gb

\* the accession in hand and its directory, os.path.join(output_dir, acc)
acc == accession_list[i]
acc_output_dir == acc

\* the directories os.makedirs(path) makes sure exist: path and its ancestors
DirChain(path) ==
    {SubSeq(path, 1, n - 1) : n \in {m \in 1..Len(path) : path[m] = "/"}}
        \cup {path}

\* os.listdir(d): the names directly inside d
Inside(d, p) ==
    /\ Len(p) > Len(d) + 1
    /\ SubSeq(p, 1, Len(d) + 1) = d \o Sep
BaseName(d, p) == SubSeq(p, Len(d) + 2, Len(p))
listdir(d) ==
    {BaseName(d, p) : p \in {q \in DOMAIN fs : Inside(d, q) /\ "/" \notin Range(BaseName(d, q))}}

\* fs with the entries of new written over it
Written(new) ==
    [p \in DOMAIN fs \cup DOMAIN new |-> IF p \in DOMAIN new THEN new[p] ELSE fs[p]]

Note(step) == [steps EXCEPT ![i] = Append(@, step)]

SuccessResult(a, files, md5) ==
    [Accession |-> a, Status |-> "Success",
     OutputFile |-> JoinComma(files), MD5 |-> md5]
\* the Failure record carries the digest of the first output file
FailureResultWithDigest(a, e) ==
    [Accession |-> a, Status |-> "Failure", OutputFile |-> NA,
     MD5 |-> IF output_files # <<>> /\ output_files[1] \in DOMAIN fs
             THEN HexDigest(fs[output_files[1]].data) ELSE NA,
     Error |-> e]

FailureResult(a, e) ==
    [Accession |-> a, Status |-> "Failure",
     OutputFile |-> NA, MD5 |-> NA, Error |-> e]

\* process_accession returns result; the loop appends it and moves on
Return(result, files) ==
    /\ download_summary' = Append(download_summary, result)
    /\ result_files' = Append(result_files, files)
    /\ i' = i + 1
    /\ pc' = "for"
    /\ output_files' = <<>>
    /\ k' = 0

\* the failed accession gets no row
RaiseSkipsRow(e, step) ==
    /\ i' = i + 1
    /\ pc' = "for"
    /\ output_files' = <<>>
    /\ k' = 0
    /\ steps' = Note(step)
    /\ UNCHANGED <<download_summary, result_files>>

\* the Failure is recorded and the loop is left
RaiseBreaksLoop(e, step) ==
    /\ download_summary' = Append(download_summary, FailureResult(acc, e))
    /\ result_files' = Append(result_files, <<>>)
    /\ pc' = "done"
    /\ steps' = Note(step)
    /\ UNCHANGED <<i, output_files, k>>

\* the exception leaves process_accession and ends the script
RaisePropagates(e, step) ==
    /\ pc' = "crashed"
    /\ steps' = Note(step)
    /\ UNCHANGED <<i, output_files, k, download_summary, result_files>>

\* an exception of class e raised by step: both except clauses build the
\* same Failure record
Raise(e, step) ==
    /\ Return(FailureResult(acc, e), <<>>)
    /\ steps' = Note(step)

(* ------------------------------ the handler ---------------------------- *)

\* "Download SRA Data" with nothing to download: the warning, and no batch
EmptyInput ==
    /\ pc = "button"
    /\ accession_list = <<>>
    /\ pc' = "warned"
    /\ UNCHANGED <<metadata_results, entrez_calls, accession_list, auto_convert,
                   compress_files, free, fs, i,
                   output_files, k, download_summary, st_error, steps, result_files>>

\* the error is shown and the script goes on
DiskSpaceShortGoesOn ==
    /\ pc = "button"
    /\ accession_list # <<>>
    /\ check_disk_space(RequiredGb)
    /\ st_error' = <<RequiredGb, free_gb>>
    /\ i' = 1
    /\ pc' = "for"
    /\ UNCHANGED <<metadata_results, entrez_calls, accession_list, auto_convert,
                   compress_files, free, fs,
                   output_files, k, download_summary, steps, result_files>>

\* check_disk_space(10) raises: st.error, logging.error, st.stop()
DiskSpaceShort ==
    /\ pc = "button"
    /\ accession_list # <<>>
    /\ check_disk_space(RequiredGb)
    /\ st_error' = <<RequiredGb, free_gb>>
    /\ pc' = "stopped"
    /\ UNCHANGED <<metadata_results, entrez_calls, accession_list, auto_convert,
                   compress_files, free, fs, i,
                   output_files, k, download_summary, steps, result_files>>

\* check_disk_space(10) returns: download_summary = [] and the loop starts
DiskSpaceOk ==
    /\ pc = "button"
    /\ accession_list # <<>>
    /\ ~check_disk_space(RequiredGb)
    /\ download_summary' = <<>>
    /\ i' = 1
    /\ pc' = "for"
    /\ UNCHANGED <<metadata_results, entrez_calls, accession_list, auto_convert,
                   compress_files, free, fs,
                   output_files, k, st_error, steps, result_files>>

\* for i, acc in enumerate(accession_list): process_accession(acc) is called
ForBody ==
    /\ pc = "for"
    /\ i <= Len(accession_list)
    /\ pc' = "validate"
    /\ UNCHANGED <<metadata_results, entrez_calls, accession_list, auto_convert,
                   compress_files, free, fs, i,
                   output_files, k, download_summary, st_error, steps, result_files>>

\* the list is exhausted: the final message and st.table(download_summary)
ForExit ==
    /\ pc = "for"
    /\ i > Len(accession_list)
    /\ pc' = "done"
    /\ UNCHANGED <<metadata_results, entrez_calls, accession_list, auto_convert,
                   compress_files, free, fs, i,
                   output_files, k, download_summary, st_error, steps, result_files>>

(* ------------------------------ process_accession ---------------------- *)

Validate ==
    /\ pc = "validate"
    /\ IF validate_accession(acc)
       THEN /\ steps' = Note("validate")
            /\ pc' = "makedirs"
            /\ UNCHANGED <<i, output_files, k, download_summary, result_files>>
       ELSE Raise("ValueError", "validate:failed")
    /\ UNCHANGED <<metadata_results, entrez_calls, accession_list, auto_convert,
                   compress_files, free, fs, st_error>>

\* os.makedirs(acc_output_dir, exist_ok=True)
MakedirsBlocked == \E p \in DirChain(acc_output_dir) : p \in DOMAIN fs /\ fs[p].kind = "file"
Makedirs ==
    /\ pc = "makedirs"
    /\ \E oserror \in BOOLEAN :
         IF oserror \/ MakedirsBlocked
         THEN /\ Raise("OSError", "makedirs:failed")
              /\ UNCHANGED fs
         ELSE /\ fs' = Written([p \in DirChain(acc_output_dir) \ DOMAIN fs |-> Dir(acc)])
              /\ steps' = Note("makedirs")
              /\ pc' = "prefetch"
              /\ UNCHANGED <<i, output_files, k, download_summary, result_files>>
    /\ UNCHANGED <<metadata_results, entrez_calls, accession_list, auto_convert,
                   compress_files, free, st_error>>

\* the vendor tools take a run accession; a name holding a path separator is
\* read as a local path, which does not exist, and the tool exits non-zero
ToolKnows(a) == "/" \notin Range(a)

\* subprocess.run without check=True: a non-zero exit raises nothing
PrefetchUnchecked ==
    /\ pc = "prefetch"
    /\ \E exit \in {0, 1} :
         /\ steps' = Note(IF exit # 0 \/ ~ToolKnows(acc) THEN "prefetch:failed" ELSE "prefetch")
         /\ pc' = IF auto_convert THEN "fasterq-dump" ELSE "listdir"
         /\ UNCHANGED <<fs, i, output_files, k, download_summary, result_files>>
    /\ UNCHANGED <<metadata_results, entrez_calls, accession_list, auto_convert,
                   compress_files, free, st_error>>

\* the fetch tool is not run when the archive is already at sra_file_path
PrefetchSkipsExisting ==
    /\ pc = "prefetch"
    /\ \E exit \in {0, 1}, archived \in BOOLEAN :
         IF PathJoin(acc_output_dir, acc \o DotSra) \in DOMAIN fs
         THEN /\ exit = 0 /\ ~archived
              /\ pc' = IF auto_convert THEN "fasterq-dump" ELSE "listdir"
              /\ UNCHANGED <<fs, steps, i, output_files, k, download_summary, result_files>>
         ELSE IF exit # 0 \/ ~ToolKnows(acc)
         THEN /\ ~archived
              /\ Raise("CalledProcessError", "prefetch:failed")
              /\ UNCHANGED fs
         ELSE /\ fs' = IF archived
                       THEN Written([p \in {PathJoin(acc_output_dir, acc \o DotSra)}
                                        |-> File(SraContent(acc), acc)])
                       ELSE fs
              /\ steps' = Note("prefetch")
              /\ pc' = IF auto_convert THEN "fasterq-dump" ELSE "listdir"
              /\ UNCHANGED <<i, output_files, k, download_summary, result_files>>
    /\ UNCHANGED <<metadata_results, entrez_calls, accession_list, auto_convert,
                   compress_files, free, st_error>>

\* subprocess.run(prefetch_command, check=True)
Prefetch ==
    /\ pc = "prefetch"
    /\ \E exit \in {0, 1}, archived \in BOOLEAN :
         IF exit # 0 \/ ~ToolKnows(acc)
         THEN /\ ~archived
              /\ Raise("CalledProcessError", "prefetch:failed")
              /\ UNCHANGED fs
         ELSE /\ fs' = IF archived
                       THEN Written([p \in {PathJoin(acc_output_dir, acc \o DotSra)}
                                        |-> File(SraContent(acc), acc)])
                       ELSE fs
              /\ steps' = Note("prefetch")
              /\ pc' = IF auto_convert THEN "fasterq-dump" ELSE "listdir"
              /\ UNCHANGED <<i, output_files, k, download_summary, result_files>>
    /\ UNCHANGED <<metadata_results, entrez_calls, accession_list, auto_convert,
                   compress_files, free, st_error>>

\* the read files the decode tool writes for accession a: a pair for a
\* paired-end run (SRR1), one file for a single-end run
FastqNames(a) ==
    IF a = AccSRR1
    THEN {a \o <<"_", "1">> \o DotFastq, a \o <<"_", "2">> \o DotFastq}
    ELSE {a \o DotFastq}

\* subprocess.run(fasterq_dump_command, check=True), --outdir acc_output_dir
FasterqDump ==
    /\ pc = "fasterq-dump"
    /\ \E exit \in {0, 1} :
         IF exit # 0 \/ ~ToolKnows(acc)
         THEN /\ Raise("CalledProcessError", "fasterq-dump:failed")
              /\ UNCHANGED fs
         ELSE /\ fs' = Written([p \in {PathJoin(acc_output_dir, n) : n \in FastqNames(acc)}
                                   |-> File(FastqText(acc), acc)])
              /\ steps' = Note("fasterq-dump")
              /\ pc' = "listdir"
              /\ UNCHANGED <<i, output_files, k, download_summary, result_files>>
    /\ UNCHANGED <<metadata_results, entrez_calls, accession_list, auto_convert,
                   compress_files, free, st_error>>

\* the compression loop is entered whenever compress_files is set
ListOutputsUngated ==
    /\ pc = "listdir"
    /\ \E listing \in Orderings({f \in listdir(acc_output_dir) : StartsWith(f, acc)}) :
         output_files' = JoinEach(acc_output_dir, listing)
    /\ steps' = Note("listdir")
    /\ k' = 0
    /\ pc' = IF compress_files THEN "compress" ELSE "md5"
    /\ UNCHANGED <<metadata_results, entrez_calls, accession_list, auto_convert,
                   compress_files, free, fs, i,
                   download_summary, st_error, result_files>>

\* output_files = [join(acc_output_dir, f) for f in os.listdir(acc_output_dir)
\*                 if f.startswith(acc)], in the order the directory lists them
ListOutputs ==
    /\ pc = "listdir"
    /\ \E listing \in Orderings({f \in listdir(acc_output_dir) : StartsWith(f, acc)}) :
         output_files' = JoinEach(acc_output_dir, listing)
    /\ steps' = Note("listdir")
    /\ k' = 0
    /\ pc' = IF auto_convert /\ compress_files THEN "compress" ELSE "md5"
    /\ UNCHANGED <<metadata_results, entrez_calls, accession_list, auto_convert,
                   compress_files, free, fs, i,
                   download_summary, st_error, result_files>>

(* ------------------------------ compress_file -------------------------- *)

IsFile(path) == path \in DOMAIN fs /\ fs[path].kind = "file"

\* the lines are written without their terminators
RECURSIVE StripLines(_)
StripLines(lines) ==
    IF lines = <<>> THEN <<>>
    ELSE <<SelectSeq(lines[1], LAMBDA b : b # NewLine)>> \o StripLines(Tail(lines))
compressed_dataStripped(bytes) ==
    GzipCompress(WriteLines(StripLines(ReadLines(bytes, <<>>))))

\* what compress_file writes: the lines of the file, gzip-compressed
compressed_data(bytes) == GzipCompress(WriteLines(ReadLines(bytes, <<>>)))

\* the file system once gzip.open(file_path + ".gz", "wb") has been written
GzWritten(file_path) ==
    Written([p \in {file_path \o DotGz} |->
                File(compressed_data(fs[file_path].data), acc)])

\* the file system after compress_file(file_path) returned: the .gz written,
\* then os.remove(file_path)
compress_file(file_path) ==
    [p \in DOMAIN GzWritten(file_path) \ {file_path} |-> GzWritten(file_path)[p]]

\* for file_path in output_files: the iterator stands at position k of the
\* list as it is now; a .fastq entry is compressed, removed from the list
\* and its .gz path appended
CompressFastq ==
    /\ pc = "compress"
    /\ k < Len(output_files)
    /\ EndsWith(output_files[k + 1], DotFastq)
    /\ LET file_path == output_files[k + 1] IN
         \* open(file_path, 'rb') raises
         \/ /\ Raise("OSError", "compress:failed")
            /\ UNCHANGED fs
         \* the .gz is written and os.remove(file_path) raises
         \/ /\ IsFile(file_path)
            /\ Raise("OSError", "compress:failed")
            /\ fs' = GzWritten(file_path)
         \* compress_file returns
         \/ /\ IsFile(file_path)
            /\ fs' = compress_file(file_path)
            /\ output_files' = Append(ListRemove(output_files, file_path),
                                      file_path \o DotGz)
            /\ k' = k + 1
            /\ steps' = Note("compress")
            /\ UNCHANGED <<pc, i, download_summary, result_files>>
    /\ UNCHANGED <<metadata_results, entrez_calls, accession_list, auto_convert,
                   compress_files, free, st_error>>

\* an entry that does not end in .fastq: the loop body does nothing
CompressSkip ==
    /\ pc = "compress"
    /\ k < Len(output_files)
    /\ ~EndsWith(output_files[k + 1], DotFastq)
    /\ k' = k + 1
    /\ UNCHANGED <<metadata_results, entrez_calls, accession_list, auto_convert,
                   compress_files, free, fs, pc, i,
                   output_files, download_summary, st_error, steps, result_files>>

\* the iterator is past the end of the list
CompressEnd ==
    /\ pc = "compress"
    /\ k >= Len(output_files)
    /\ pc' = "md5"
    /\ UNCHANGED <<metadata_results, entrez_calls, accession_list, auto_convert,
                   compress_files, free, fs, i,
                   output_files, k, download_summary, st_error, steps, result_files>>

(* ------------------------------ calculate_md5 -------------------------- *)

RECURSIVE Update(_, _)
Update(absorbed, chunks) ==
    IF chunks = <<>> THEN absorbed
    ELSE Update(absorbed \o chunks[1], Tail(chunks))

calculate_md5(file_path) == HexDigest(Update(<<>>, ReadChunks(fs[file_path].data)))

\* the digest is taken of the last entry of the list
ChecksumOfLast ==
    /\ pc = "md5"
    /\ IF output_files = <<>>
       THEN /\ Return(SuccessResult(acc, output_files, NA), output_files)
            /\ steps' = Note("return")
       ELSE \E oserror \in BOOLEAN :
              IF oserror \/ ~IsFile(output_files[Len(output_files)])
              THEN Raise("OSError", "md5:failed")
              ELSE /\ Return(SuccessResult(acc, output_files, calculate_md5(output_files[Len(output_files)])),
                             output_files)
                   /\ steps' = Note("md5")
    /\ UNCHANGED <<metadata_results, entrez_calls, accession_list, auto_convert,
                   compress_files, free, fs, st_error>>

\* md5_checksum = calculate_md5(output_files[0]) if output_files else "N/A",
\* and the Success result
Checksum ==
    /\ pc = "md5"
    /\ IF output_files = <<>>
       THEN /\ Return(SuccessResult(acc, output_files, NA), output_files)
            /\ steps' = Note("return")
       ELSE \E oserror \in BOOLEAN :
              IF oserror \/ ~IsFile(output_files[1])
              THEN Raise("OSError", "md5:failed")
              ELSE /\ Return(SuccessResult(acc, output_files, calculate_md5(output_files[1])),
                             output_files)
                   /\ steps' = Note("md5")
    /\ UNCHANGED <<metadata_results, entrez_calls, accession_list, auto_convert,
                   compress_files, free, fs, st_error>>

(* ------------------------------ specification -------------------------- *)

Next ==
    \/ EmptyInput
    \/ DiskSpaceShort
    \/ DiskSpaceOk
    \/ ForBody
    \/ ForExit
    \/ Validate
    \/ Makedirs
    \/ Prefetch
    \/ FasterqDump
    \/ ListOutputs
    \/ CompressFastq
    \/ CompressSkip
    \/ CompressEnd
    \/ Checksum

Spec == Init /\ [][Next]_vars

\* every step of the script returns, so the script keeps running until it ends
FairSpec == Spec /\ WF_vars(Next)

(* ------------------------------ fetch_metadata ------------------------- *)

NoMetadataFound == <<"N", "o", " ", "m", "e", "t", "a", "d", "a", "t", "a", " ",
                     "f", "o", "u", "n", "d">>
ErrorFetching == <<"E", "r", "r", "o", "r", " ", "f", "e", "t", "c", "h", "i", "n", "g", " ",
                   "m", "e", "t", "a", "d", "a", "t", "a", ":", " ">>

\* how Entrez.esearch and Entrez.read may end: an exception with its message,
\* or a record with its IdList
Timeout == <<"t", "i", "m", "e", "d", " ", "o", "u", "t">>
BadXml == <<"n", "o", "t", " ", "X", "M", "L">>
SearchOutcomes ==
    {[raised |-> TRUE, message |-> Timeout, IdList |-> <<>>],
     [raised |-> TRUE, message |-> BadXml, IdList |-> <<>>],
     [raised |-> FALSE, message |-> <<>>, IdList |-> <<>>],
     [raised |-> FALSE, message |-> <<>>, IdList |-> <<7, 9>>]}
\* how Entrez.efetch of sra_id = IdList[0] and handle.read() may end: an
\* exception, or the text
DocSum(sra_id) == <<"<", "I", "d", ">", HexDigits[sra_id + 1], "<", "/", "I", "d", ">">>
FetchOutcomes(sra_id) ==
    {[raised |-> TRUE, message |-> Timeout, text |-> <<>>],
     [raised |-> FALSE, message |-> <<>>, text |-> DocSum(sra_id)],
     [raised |-> FALSE, message |-> <<>>, text |-> NoMetadataFound]}

\* what fetch_metadata(accession) hands back, or [raised |-> message] when an
\* exception leaves it; only a failed search is caught
fetch_metadataSearchOnly(accession, search, fetch) ==
    IF search.raised
    THEN [Accession |-> accession, Metadata |-> ErrorFetching \o search.message]
    ELSE IF search.IdList = <<>>
    THEN [Accession |-> accession, Metadata |-> NoMetadataFound]
    ELSE IF fetch.raised
    THEN [raised |-> fetch.message]
    ELSE [Accession |-> accession, Metadata |-> fetch.text]

\* what fetch_metadata(accession) hands back, or [raised |-> message] when an
\* exception leaves it: search is the outcome of esearch and read, fetch that of efetch
\* and handle.read(); except Exception catches both
fetch_metadata(accession, search, fetch) ==
    IF search.raised
    THEN [Accession |-> accession, Metadata |-> ErrorFetching \o search.message]
    ELSE IF search.IdList = <<>>
    THEN [Accession |-> accession, Metadata |-> NoMetadataFound]
    ELSE IF fetch.raised
    THEN [Accession |-> accession, Metadata |-> ErrorFetching \o fetch.message]
    ELSE [Accession |-> accession, Metadata |-> fetch.text]

download_vars == <<auto_convert, compress_files, free, fs, output_files, k,
                   download_summary, st_error, steps, result_files>>

\* "Fetch Metadata" with nothing to look up: the warning
MetadataEmptyInput ==
    /\ pc = "metadata-button"
    /\ accession_list = <<>>
    /\ pc' = "warned"
    /\ UNCHANGED <<accession_list, i, metadata_results, entrez_calls, download_vars>>

\* metadata_results = [] and the loop over accession_list starts
MetadataStart ==
    /\ pc = "metadata-button"
    /\ accession_list # <<>>
    /\ metadata_results' = <<>>
    /\ i' = 1
    /\ pc' = "metadata-for"
    /\ UNCHANGED <<accession_list, entrez_calls, download_vars>>

\* metadata = fetch_metadata(acc); metadata_results.append(metadata)
MetadataFetch ==
    /\ pc = "metadata-for"
    /\ i <= Len(accession_list)
    /\ \E search \in SearchOutcomes :
         \E fetch \in IF search.raised \/ search.IdList = <<>>
                       THEN {[raised |-> FALSE, message |-> <<>>, text |-> <<>>]}
                       ELSE FetchOutcomes(search.IdList[1]) :
           LET metadata == fetch_metadata(acc, search, fetch) IN
           /\ entrez_calls' = Append(entrez_calls, [search |-> search, fetch |-> fetch])
           /\ IF "raised" \in DOMAIN metadata
              THEN /\ pc' = "crashed"
                   /\ UNCHANGED <<metadata_results, i>>
              ELSE /\ metadata_results' = Append(metadata_results, metadata)
                   /\ i' = i + 1
                   /\ UNCHANGED pc
    /\ UNCHANGED <<accession_list, download_vars>>

\* the records are displayed
MetadataShow ==
    /\ pc = "metadata-for"
    /\ i > Len(accession_list)
    /\ pc' = "metadata-shown"
    /\ UNCHANGED <<accession_list, i, metadata_results, entrez_calls, download_vars>>

MetaInit ==
    /\ accession_list \in SeqsUpTo(Accessions, MaxBatch)
    /\ auto_convert \in BOOLEAN
    /\ compress_files \in BOOLEAN
    /\ free = [hi |-> RequiredGb * 1024, lo |-> 0]
    /\ fs = NoEntries
    /\ pc = "metadata-button"
    /\ i = 0
    /\ output_files = <<>>
    /\ k = 0
    /\ download_summary = <<>>
    /\ st_error = <<>>
    /\ steps = [j \in 1..Len(accession_list) |-> <<>>]
    /\ result_files = <<>>
    /\ metadata_results = <<>>
    /\ entrez_calls = <<>>

MetaNext ==
    \/ MetadataEmptyInput
    \/ MetadataStart
    \/ MetadataFetch
    \/ MetadataShow

MetaSpec == MetaInit /\ [][MetaNext]_vars

(* ------------------------------ properties ----------------------------- *)

InProcess == {"validate", "makedirs", "prefetch", "fasterq-dump", "listdir",
              "compress", "md5"}
Results == 1..Len(download_summary)
Failed(step_list) == \E n \in 1..Len(step_list) :
    step_list[n] \in {"validate:failed", "makedirs:failed", "prefetch:failed",
                      "fasterq-dump:failed", "compress:failed", "md5:failed"}

\* C1: once the disk space check has passed, the summary holds the results of
\* the accessions handled so far, the j-th result carrying the j-th input
\* accession, and when the loop has ended it holds exactly one result per
\* input accession.
C1_OneResultPerAccession ==
    /\ Len(download_summary) <= Len(accession_list)
    /\ Len(result_files) = Len(download_summary)
    /\ \A j \in Results : download_summary[j].Accession = accession_list[j]
    /\ pc \in InProcess => Len(download_summary) = i - 1
    /\ pc = "done" => Len(download_summary) = Len(accession_list)

\* a finished batch of a twice-submitted accession whose first run failed
C1_Witness ==
    /\ pc = "done"
    /\ Len(accession_list) = 2
    /\ accession_list[1] = accession_list[2]
    /\ download_summary[1].Status = "Failure"
    /\ download_summary[2].Status = "Success"

LacksPrefix(a) == Len(a) < 3 \/ <<a[1], a[2], a[3]>> \notin {SRR, ERR, DRR}
C3_InvalidTouchesNothing ==
    /\ [](\A j \in 1..Len(accession_list) :
            LacksPrefix(accession_list[j]) =>
               /\ steps[j] \in {<<>>, <<"validate:failed">>}
               /\ j \in Results =>
                    /\ download_summary[j].Accession = accession_list[j]
                    /\ download_summary[j].Status = "Failure"
                    /\ download_summary[j].Error = "ValueError"
                    /\ download_summary[j].OutputFile = NA)
    /\ [][(pc \in InProcess /\ LacksPrefix(accession_list[i])) => fs' = fs]_vars

\* the empty string and a wrong prefix, both rejected
C3_Witness ==
    /\ Len(download_summary) = 2
    /\ accession_list[1] = AccEmpty
    /\ accession_list[2] = AccBad
    /\ download_summary[2].Error = "ValueError"
    /\ steps[2] = <<"validate:failed">>

\* C4: when prefetch exits non-zero for an accession, that accession's steps
\* end there (no fasterq-dump, no listing, no compression, no checksum) and
\* its result is a Failure.
C4_FetchFailureStops ==
    \A j \in 1..Len(accession_list) :
        (\E n \in 1..Len(steps[j]) : steps[j][n] = "prefetch:failed") =>
            /\ steps[j] = <<"validate", "makedirs", "prefetch:failed">>
            /\ j \in Results
            /\ download_summary[j].Status = "Failure"
            /\ download_summary[j].Error = "CalledProcessError"

\* prefetch failed with conversion and compression switched on
C4_Witness ==
    /\ auto_convert
    /\ compress_files
    /\ \E j \in Results :
         /\ steps[j] = <<"validate", "makedirs", "prefetch:failed">>
         /\ accession_list[j] = AccERR2

\* C5: when the disk space check has raised, the script has stopped: there
\* is no result, no accession has taken any step and the file system is as
\* it was.
C5_NoSpaceNoBatch ==
    st_error # <<>> =>
        /\ pc = "stopped"
        /\ download_summary = <<>>
        /\ result_files = <<>>
        /\ i = 0
        /\ \A j \in 1..Len(accession_list) : steps[j] = <<>>
        /\ fs \in {NoEntries, LeftOver, Interrupted}
        /\ fs \in InitialFs(accession_list)

\* stopped one byte short of 10 GiB, two accessions waiting
C5_Witness ==
    /\ pc = "stopped"
    /\ st_error = <<RequiredGb, RequiredGb - 1>>
    /\ Len(accession_list) = 2

\* C6: every Failure result carries the "N/A" checksum, whichever step
\* failed.
C6_FailureHasNoDigest ==
    \A j \in Results :
        download_summary[j].Status = "Failure" => download_summary[j].MD5 = NA

\* a Failure from the checksum step itself, after a file was compressed
C6_Witness ==
    \E j \in Results :
        /\ download_summary[j].Status = "Failure"
        /\ steps[j][Len(steps[j])] = "md5:failed"
        /\ \E n \in 1..Len(steps[j]) : steps[j][n] = "compress"

\* C7: with conversion and compression on, the output list of a Success
\* result holds no path ending in .fastq, and when the result is returned no
\* .fastq file with the accession prefix is left in the accession's
\* directory.
C7_EveryFastqCompressed ==
    /\ \A j \in Results :
         (download_summary[j].Status = "Success" /\ auto_convert /\ compress_files) =>
            \A n \in 1..Len(result_files[j]) : ~EndsWith(result_files[j][n], DotFastq)
    /\ (/\ pc = "for"
        /\ download_summary # <<>>
        /\ download_summary[Len(download_summary)].Status = "Success"
        /\ auto_convert /\ compress_files) =>
           \A f \in listdir(accession_list[i - 1]) :
               ~(StartsWith(f, accession_list[i - 1]) /\ EndsWith(f, DotFastq))

\* C8: a step in which compress_file(p) returns leaves p + ".gz" as a file
\* that decompresses to what p held, p gone, p + ".gz" the path handed back
\* (appended to the list), and every other entry of the file system as it
\* was.
C8_CompressFileContract ==
    [][(pc = "compress" /\ steps'[i] = Append(steps[i], "compress")) =>
          LET p == output_files[k + 1]
              gz == p \o DotGz
          IN  /\ gz \in DOMAIN fs'
              /\ fs'[gz].kind = "file"
              /\ IsGzip(fs'[gz].data)
              /\ GzipDecompress(fs'[gz].data) = fs[p].data
              /\ p \notin DOMAIN fs'
              /\ output_files'[Len(output_files')] = gz
              /\ \A q \in (DOMAIN fs \cup DOMAIN fs') \ {p, gz} :
                    q \in DOMAIN fs /\ q \in DOMAIN fs' /\ fs'[q] = fs[q]]_vars

\* ERR2.fastq has been compressed: only ERR2.fastq.gz is left, holding the
\* reads
C8_Witness ==
    LET p == PathJoin(AccERR2, AccERR2 \o DotFastq) IN
    /\ \E j \in 1..Len(accession_list) : \E n \in 1..Len(steps[j]) : steps[j][n] = "compress"
    /\ p \notin DOMAIN fs
    /\ p \o DotGz \in DOMAIN fs
    /\ GzipDecompress(fs[p \o DotGz].data) = FastqText(AccERR2)

\* C9: an entry inside the directory of accession A that was made during
\* the batch was made while A was processed, and every path of A's output
\* list lies directly inside A's directory under a name that starts with A.
C9_DirectoriesAreIsolated ==
    /\ \A j \in 1..Len(accession_list) : \A p \in DOMAIN fs :
         (Inside(accession_list[j], p) /\ fs[p].by # Earlier) =>
             fs[p].by = accession_list[j]
    /\ \A j \in Results : \A n \in 1..Len(result_files[j]) :
         LET p == result_files[j][n]
             d == accession_list[j]
         IN  /\ Inside(d, p)
             /\ "/" \notin Range(BaseName(d, p))
             /\ StartsWith(BaseName(d, p), d)

\* C10: once the loop has started, the script reaches its end with one
\* result per input accession, whatever the steps' outcomes.
C10_BatchCompletes ==
    (pc = "for") ~> (pc = "done" /\ Len(download_summary) = Len(accession_list))

\* a finished batch in which a tool failed, then a file operation failed
C10_Witness ==
    /\ pc = "done"
    /\ Len(download_summary) = 2
    /\ download_summary[1].Status = "Failure"
    /\ download_summary[1].Error = "CalledProcessError"
    /\ download_summary[2].Status = "Failure"
    /\ download_summary[2].Error = "OSError"

\* C11: no exception leaves fetch_metadata: whatever the search and fetch
\* calls do, a record is appended that holds the accession and, as Metadata,
\* the error message when a call raised, else the "No metadata found" marker
\* when the search matched nothing, else the text fetched.
C11_MetadataNeverRaises ==
    /\ pc # "crashed"
    /\ Len(metadata_results) = Len(entrez_calls)
    /\ pc = "metadata-shown" => Len(metadata_results) = Len(accession_list)
    /\ \A j \in 1..Len(metadata_results) :
         LET call == entrez_calls[j]
             m == metadata_results[j].Metadata
         IN  /\ metadata_results[j].Accession = accession_list[j]
             /\ DOMAIN metadata_results[j] = {"Accession", "Metadata"}
             /\ call.search.raised => m = ErrorFetching \o call.search.message
             /\ (~call.search.raised /\ call.search.IdList = <<>>) => m = NoMetadataFound
             /\ (~call.search.raised /\ call.search.IdList # <<>> /\ call.fetch.raised) =>
                    m = ErrorFetching \o call.fetch.message
             /\ (~call.search.raised /\ call.search.IdList # <<>> /\ ~call.fetch.raised) =>
                    m = call.fetch.text

\* a fault in the fetch call, then a record fetched, both displayed
C11_Witness ==
    /\ pc = "metadata-shown"
    /\ Len(metadata_results) = 2
    /\ entrez_calls[1].fetch.raised
    /\ metadata_results[1].Metadata = ErrorFetching \o Timeout
    /\ metadata_results[2].Metadata = DocSum(7)

\* the steps a step may directly follow: only a step that succeeded is
\* followed, fasterq-dump and compress are optional, and compress is noted
\* once per file
StepBefore(step) ==
    CASE step \in {"validate", "validate:failed"} -> {}
      [] step \in {"makedirs", "makedirs:failed"} -> {"validate"}
      [] step \in {"prefetch", "prefetch:failed"} -> {"makedirs"}
      [] step \in {"fasterq-dump", "fasterq-dump:failed"} -> {"prefetch"}
      [] step = "listdir" -> {"prefetch", "fasterq-dump"}
      [] step \in {"compress", "compress:failed"} -> {"listdir", "compress"}
      [] step \in {"md5", "md5:failed", "return"} -> {"listdir", "compress"}
\* how many of the steps noted are among names
Times(step_list, names) == Cardinality({n \in 1..Len(step_list) : step_list[n] \in names})
Finished(step_list) ==
    /\ step_list # <<>>
    /\ step_list[Len(step_list)] \in {"validate:failed", "makedirs:failed", "prefetch:failed",
                                      "fasterq-dump:failed", "compress:failed", "md5:failed",
                                      "md5", "return"}
FetchNotes == {"prefetch", "prefetch:failed"}
DecodeNotes == {"fasterq-dump", "fasterq-dump:failed"}
Ran(step_list, names) == \E n \in 1..Len(step_list) : step_list[n] \in names
\* a step is noted for the accession in hand only, after the steps it already
\* has; it directly follows a step it may follow, and a tool that has run for
\* this accession does not run again
StepTaken ==
    steps' # steps =>
        /\ pc \in InProcess
        /\ Len(steps'[i]) = Len(steps[i]) + 1
        /\ LET step == steps'[i][Len(steps'[i])] IN
           /\ steps' = [steps EXCEPT ![i] = Append(steps[i], step)]
           /\ IF steps[i] = <<>>
              THEN step \in {"validate", "validate:failed"}
              ELSE steps[i][Len(steps[i])] \in StepBefore(step)
           /\ step \in FetchNotes => ~Ran(steps[i], FetchNotes)
           /\ step \in DecodeNotes => ~Ran(steps[i], DecodeNotes)
\* the steps are taken in pipeline order, no tool is run twice for an
\* accession, and an accession has its result exactly when its steps ended
StepsInOrder ==
    /\ [][StepTaken]_vars
    /\ [](\A j \in 1..Len(accession_list) :
            Finished(steps[j]) <=> j <= Len(download_summary))

\* C12 as stated: the steps of every accession occur in pipeline order, each
\* tool is run at most once, and every accession with a valid prefix that has
\* its result had the fetch tool run (exactly once, by the first part).
C12_FetchOnceForEveryValid ==
    /\ StepsInOrder
    /\ [](\A j \in Results :
            ~LacksPrefix(accession_list[j]) => Ran(steps[j], FetchNotes))

\* C12, amended: the steps of every accession occur in the order validate,
\* makedirs, prefetch, (fasterq-dump), listdir, (compress), md5, result, with
\* nothing after a failed step; each tool is run at most once per accession;
\* and the fetch tool is run (once) for every accession that passed
\* validation and had its output directory created, also when the archive is
\* already there, and not at all for the others.
C12_FetchOnceAfterDirectory ==
    /\ StepsInOrder
    /\ [](\A j \in Results :
            /\ Len(steps[j]) >= 2 <=> ~LacksPrefix(accession_list[j])
            /\ Ran(steps[j], FetchNotes) <=>
                  (Len(steps[j]) >= 2 /\ steps[j][2] = "makedirs"))

\* the archive of SRR1 was listed in the first result, and the fetch tool ran
\* again for the second SRR1, which went through every step
C12_Witness ==
    /\ accession_list = <<AccSRR1, AccSRR1>>
    /\ Len(download_summary) = 2
    /\ PathJoin(AccSRR1, AccSRR1 \o DotSra) \in Range(result_files[1])
    /\ steps[2] = <<"validate", "makedirs", "prefetch", "fasterq-dump", "listdir",
                    "compress", "compress", "md5">>

\* C13: fasterq-dump is run for an accession only when auto_convert is set
\* and after validation and prefetch succeeded; a file is compressed only
\* when auto_convert and compress_files are both set; and while auto_convert
\* is off no step removes a file, writes a .gz or changes a file other than
\* the archive prefetch writes, also when compress_files is set and .fastq
\* files with the accession prefix are in the output directory.
C13_ConfigurationGating ==
    /\ [](\A j \in 1..Len(accession_list) :
            /\ Times(steps[j], {"fasterq-dump", "fasterq-dump:failed"}) > 0 =>
                  /\ auto_convert
                  /\ "validate" \in Range(steps[j])
                  /\ "prefetch" \in Range(steps[j])
            /\ Times(steps[j], {"compress", "compress:failed"}) > 0 =>
                  auto_convert /\ compress_files)
    /\ [][~auto_convert =>
            /\ \A p \in DOMAIN fs :
                 /\ p \in DOMAIN fs'
                 /\ fs'[p] = fs[p] \/ EndsWith(p, DotSra)
            /\ \A p \in DOMAIN fs' \ DOMAIN fs : ~EndsWith(p, DotGz)]_vars

\* conversion off, compression on, and the ERR2.fastq of an earlier run is
\* listed in the Success result and still in place
C13_Witness ==
    /\ ~auto_convert
    /\ compress_files
    /\ pc = "done"
    /\ accession_list = <<AccERR2>>
    /\ download_summary[1].Status = "Success"
    /\ PathJoin(AccERR2, AccERR2 \o DotFastq) \in Range(result_files[1])
    /\ fs[PathJoin(AccERR2, AccERR2 \o DotFastq)] = LeftOver[PathJoin(AccERR2, AccERR2 \o DotFastq)]

\* the entries of output_files that were discovered by the listing and are
\* still in the list: every compression removed one of them and appended its
\* .gz path at the end
Discovered ==
    SubSeq(output_files, 1, Len(output_files) - Times(steps[i], {"compress"}))

\* C14: while the compression loop runs, a discovered entry that does not end
\* in .fastq keeps its file as it is (same content, same writer, not removed)
\* and stays in the output list.
C14_OtherFilesUntouched ==
    [][pc = "compress" =>
         \A n \in 1..Len(Discovered) :
            LET p == Discovered[n] IN
            ~EndsWith(p, DotFastq) =>
               /\ p \in DOMAIN fs => (p \in DOMAIN fs' /\ fs'[p] = fs[p])
               /\ pc' \in {"compress", "md5"} => p \in Range(output_files')]_vars

\* C17: the output file list of a Success result holds no path twice.
C17_NoPathTwice ==
    \A j \in Results :
        download_summary[j].Status = "Success" =>
            \A m, n \in 1..Len(result_files[j]) :
                result_files[j][m] = result_files[j][n] => m = n

\* a Success result is appended by this step
SuccessReturned ==
    /\ Len(download_summary') = Len(download_summary) + 1
    /\ download_summary'[Len(download_summary')].Status = "Success"

\* C18: when a Success result is created, every path of its output file list
\* is a file in the accession's output directory; no .fastq path that
\* compression removed is in the list; and the first entry, the one that is
\* checksummed, is such a file.
C18_ListedFilesExist ==
    [][SuccessReturned =>
         /\ result_files'[Len(result_files')] = output_files
         /\ \A n \in 1..Len(output_files) :
              LET p == output_files[n] IN
              /\ p \in DOMAIN fs'
              /\ fs'[p].kind = "file"
              /\ p = PathJoin(acc_output_dir, SubSeq(p, Len(acc_output_dir) + 2, Len(p)))
              ]_vars

\* C15: when a Success result is created, its checksum is the digest of the
\* bytes of the first entry of output_files as the compression loop left it,
\* and it is "N/A" exactly when that list is empty.
C15_ChecksumOfFirstEntry ==
    [][SuccessReturned =>
         LET result == download_summary'[Len(download_summary')] IN
         /\ result_files'[Len(result_files')] = output_files
         /\ result.MD5 = NA <=> output_files = <<>>
         /\ output_files # <<>> =>
               result.MD5 = HexDigest(fs[output_files[1]].data)]_vars

\* ERR2 alone, compressed: the list ends with the appended .gz, the checksum
\* is that of the first entry and differs from that of the last
C15_Witness ==
    /\ accession_list = <<AccERR2>>
    /\ pc = "done"
    /\ download_summary[1].Status = "Success"
    /\ Len(result_files[1]) >= 2
    /\ EndsWith(result_files[1][Len(result_files[1])], DotGz)
    /\ "compress" \in Range(steps[1])
    /\ download_summary[1].MD5 = HexDigest(fs[result_files[1][1]].data)
    /\ download_summary[1].MD5 # HexDigest(fs[result_files[1][Len(result_files[1])]].data)

\* free bytes (hi * 2^20 + lo, lo < 2^20) below gb * 2^30
FreeBytesBelow(gb) == free.hi < gb * 1024 \/ (free.hi = gb * 1024 /\ free.lo < 0)

\* C16: the disk space check fails exactly when the free bytes are below
\* 10 * 2^30, and then the error holds the requirement and the whole
\* gigabytes available and the script stops; otherwise the batch starts. The
\* check is made at the button press only: no later step raises its error or
\* comes back to it, so a batch that is running has passed it.
C16_DiskSpaceThreshold ==
    /\ [][(pc = "button" /\ accession_list # <<>>) =>
            IF FreeBytesBelow(RequiredGb)
            THEN /\ pc' = "stopped"
                 /\ Len(st_error') = 2
                 /\ st_error'[1] = RequiredGb
                 /\ st_error'[2] * 1024 <= free.hi
                 /\ free.hi < (st_error'[2] + 1) * 1024
            ELSE /\ pc' = "for"
                 /\ st_error' = <<>>]_vars
    /\ [][pc # "button" => (pc' # "button" /\ st_error' = st_error)]_vars
    /\ [](pc \in InProcess \cup {"for", "done"} =>
            (~FreeBytesBelow(RequiredGb) /\ st_error = <<>>))
    /\ [][free' = free]_vars

\* exactly 10 GiB free: the check passed and the batch of two ran to its end
C16_Witness ==
    /\ free = [hi |-> RequiredGb * 1024, lo |-> 0]
    /\ pc = "done"
    /\ st_error = <<>>
    /\ Len(download_summary) = 2

====
